---- MODULE Spec2Model ----
(***************************************************************************)
(* A model of firestore_collections.Collection: the query composer, the    *)
(* IN-chunk strategy, the single-item mutations (insert, update,           *)
(* update_attributes, delete), the uniqueness check and bulk_insert, over  *)
(* an abstract document store.                                             *)
(*                                                                         *)
(* Encoding of values.  Every field value is an integer: None is 0, a      *)
(* plain value (a string, an owner, a timestamp) is positive, and a        *)
(* pydantic SecretStr wrapping the plain value v is -v.  A document is a   *)
(* function from the names of the fields it holds to values; the store is  *)
(* a function from the ids of the documents that exist to documents.       *)
(***************************************************************************)
EXTENDS Integers, Sequences, FiniteSets, TLC

\* ---------------------------------------------------------------- bounds
\* document ids are 1..MaxId
MaxId == 2
\* values of the unique key `email` are 1..MaxVal
MaxVal == 2
\* the clock starts at 1; every mutating call takes one tick
MaxClock == 3
\* longest value list of an `in` condition
MaxInLen == 102
\* most documents in one bulk call
MaxBulk == 3
\* largest batch_size tried
MaxBatch == 3
\* most bulk calls in one behaviour
MaxBulkCalls == 1

\* ------------------------------------------------------ program constants
\* chunks(values, n=10)
ChunkSize == 10
\* len(values_lists) > 10 raises
MaxChunks == 10

None == 0

Ids == 1..MaxId
Emails == 1..MaxVal
Owners == {None, 1}

\* pydantic.SecretStr(v), isinstance(x, SecretStr), x.get_secret_value()
Secret(v) == 0 - v
IsSecret(x) == x < 0
get_secret_value(x) == 0 - x

Passwords == {None, Secret(1)}

\* ---------------------------------------------------------------- schema
SchemaVariants == {"Schema", "SchemaWithOwner", "StaticSchema", "StaticSchemaWithOwner"}

\* The fields TestSchema declares itself.
UserFields == {"email", "password"}

\* The schema's properties: the base class's fields and the user's.
SchemaProps(s) ==
    UserFields \cup
    CASE s = "Schema" -> {"id", "created_at", "updated_at"}
      [] s = "SchemaWithOwner" -> {"id", "created_at", "updated_at", "created_by", "updated_by"}
      [] s = "StaticSchema" -> {"id", "created_at"}
      [] s = "StaticSchemaWithOwner" -> {"id", "created_at", "created_by"}

unique_keys == <<"email">>

has_attribute(s, attribute) == attribute \in SchemaProps(s)

is_updatable(s) == has_attribute(s, "updated_at")

requires_owner_insert(s) == s = "SchemaWithOwner" \/ s = "StaticSchemaWithOwner"

requires_owner_update(s) == s = "SchemaWithOwner"

\* issubclass(self.schema, SchemaWithOwner), as delete and bulk_delete ask it.
IsSchemaWithOwner(s) == s = "SchemaWithOwner"

\* pydantic's validation of one field given a stored (plain) value.
Validate(field, v) ==
    IF field = "password" /\ v > 0 THEN Secret(v) ELSE v

\* self.schema(**data): every declared field, validated; an undeclared key of
\* data is ignored and a declared field data lacks is None.
SchemaConstruct(s, data) ==
    [f \in SchemaProps(s) |-> IF f \in DOMAIN data THEN Validate(f, data[f]) ELSE None]

\* {**doc.to_dict(), 'id': doc.id}
WithId(doc, id) ==
    [k \in DOMAIN doc \cup {"id"} |-> IF k = "id" THEN id ELSE doc[k]]

FromDoc(s, doc, id) == SchemaConstruct(s, WithId(doc, id))

\* A mutant of parse_document_to_dict: str(value), the mask, for a secret.
parse_document_to_dict_masked(doc) ==
    [k \in DOMAIN doc |-> IF IsSecret(doc[k]) THEN 99 ELSE doc[k]]

parse_document_to_dict(doc) ==
    [k \in DOMAIN doc |-> IF IsSecret(doc[k]) THEN get_secret_value(doc[k]) ELSE doc[k]]

parse_attributes_to_dict(attributes) ==
    [k \in DOMAIN attributes |->
        IF IsSecret(attributes[k]) THEN get_secret_value(attributes[k]) ELSE attributes[k]]

\* doc.<field> = value on a typed record
SetField(doc, field, v) == [doc EXCEPT ![field] = v]

\* dict.pop(key, None) keeps every other key
Without(d, key) == [k \in DOMAIN d \ {key} |-> d[k]]

\* ----------------------------------------------------------- store adapter
EmptyStore == [i \in {} |-> None]

Put(st, id, doc) == [i \in DOMAIN st \cup {id} |-> IF i = id THEN doc ELSE st[i]]

Merge(old, payload) ==
    [k \in DOMAIN old \cup DOMAIN payload |->
        IF k \in DOMAIN payload THEN payload[k] ELSE old[k]]

\* doc_ref.set(payload, merge=True)
DocSetMerge(st, id, payload) ==
    Put(st, id, IF id \in DOMAIN st THEN Merge(st[id], payload) ELSE payload)

\* doc_ref.set(payload): the document is replaced
DocSet(st, id, payload) == Put(st, id, payload)

\* doc_ref.delete()
DocDelete(st, id) == [i \in DOMAIN st \ {id} |-> st[i]]

\* One filter of a query on one document.
Matches(doc, cond) ==
    /\ cond.attr \in DOMAIN doc
    /\ CASE cond.op = "==" -> doc[cond.attr] = cond.value
         [] cond.op = "!=" -> doc[cond.attr] # None /\ doc[cond.attr] # cond.value
         [] cond.op = "<" -> doc[cond.attr] # None /\ doc[cond.attr] < cond.value
         [] cond.op = "<=" -> doc[cond.attr] # None /\ doc[cond.attr] <= cond.value
         [] cond.op = ">" -> doc[cond.attr] # None /\ doc[cond.attr] > cond.value
         [] cond.op = ">=" -> doc[cond.attr] # None /\ doc[cond.attr] >= cond.value
         [] cond.op = "in" ->
                \E i \in 1..Len(cond.value) : cond.value[i] = doc[cond.attr]
         [] OTHER -> FALSE

\* The store's order of two documents under the order_by clauses, ties by id.
RECURSIVE Before(_, _, _, _)
Before(st, a, b, order_by) ==
    IF order_by = <<>> THEN a <= b
    ELSE LET k == order_by[1].attr
             va == st[a][k]
             vb == st[b][k]
         IN  IF va = vb THEN Before(st, a, b, Tail(order_by))
             ELSE IF order_by[1].direction = "ASCENDING" THEN va < vb ELSE va > vb

Take(s, n) == IF Len(s) <= n THEN s ELSE SubSeq(s, 1, n)

\* query.where(...)...order_by(...).limit(n).stream(): the ids of the matching
\* documents, in the store's order.  A document lacking an order_by field is
\* not returned.
Stream(st, filters, order_by, limit) ==
    LET hit(i) == /\ i \in DOMAIN st
                  /\ \A j \in 1..Len(filters) : Matches(st[i], filters[j])
                  /\ \A j \in 1..Len(order_by) : order_by[j].attr \in DOMAIN st[i]
        ids == SelectSeq([i \in 1..(MaxId + MaxBulk) |-> i], hit)
        sorted == SortSeq(ids, LAMBDA a, b : Before(st, a, b, order_by) /\ a # b)
    IN  IF limit # None THEN Take(sorted, limit) ELSE sorted

\* ----------------------------------------------------------- query composer
\* A mutant of chunks: the last, partial chunk is dropped.
chunks_full_only(lst, n) ==
    [k \in 1..(Len(lst) \div n) |-> SubSeq(lst, (k - 1) * n + 1, k * n)]

\* utils.chunks: lst[i:i + n] for i in range(0, len(lst), n)
chunks(lst, n) ==
    [k \in 1..((Len(lst) + n - 1) \div n) |->
        SubSeq(lst, (k - 1) * n + 1, IF k * n < Len(lst) THEN k * n ELSE Len(lst))]

\* str.lower() on the operators the model's callers write
Lower(op) == IF op = "IN" THEN "in" ELSE op

Min2(a, b) == IF a < b THEN a ELSE b

\* zip(additional_attributes, additional_values, additional_operator) as the
\* where clauses of one sub-query: it stops at the shortest list.
ZipFilters(attrs, vals, ops) ==
    [j \in 1..Min2(Len(attrs), Min2(Len(vals), Len(ops))) |->
        [attr |-> attrs[j], op |-> ops[j], value |-> vals[j]]]

\* [self.schema(**{**doc.to_dict(), 'id': doc.id}) for doc in docs.stream()]
ToRecords(s, st, ids) == [j \in 1..Len(ids) |-> FromDoc(s, st[ids[j]], ids[j])]

\* The store query one where-chain makes: what it carries and what it returns.
RunQuery(s, st, filters, order_by, limit) ==
    [filters |-> filters, order_by |-> order_by, limit |-> limit,
     docs |-> ToRecords(s, st, Stream(st, filters, order_by, limit))]

RECURSIVE ConcatDocs(_, _)
ConcatDocs(runs, k) ==
    IF k = 0 THEN <<>> ELSE ConcatDocs(runs, k - 1) \o runs[k].docs

QueryOutcome(err, docs, issued) == [err |-> err, docs |-> docs, issued |-> issued]

_query_in(s, st, attribute, values, additional_attributes, additional_values, additional_operator, limit, order_by) ==
    LET values_lists == chunks(values, ChunkSize)
    IN  IF Len(values_lists) > MaxChunks THEN QueryOutcome("ValueError", <<>>, <<>>)
        ELSE IF Len(order_by) > 0 THEN QueryOutcome("NotImplementedError", <<>>, <<>>)
        ELSE IF Len(additional_attributes) # Len(additional_values)
            THEN QueryOutcome("ValueError", <<>>, <<>>)
        ELSE IF Len(additional_values) # Len(additional_operator)
            THEN QueryOutcome("ValueError", <<>>, <<>>)
        ELSE LET runs == [k \in 1..Len(values_lists) |->
                            RunQuery(s, st,
                                <<[attr |-> attribute, op |-> "in", value |-> values_lists[k]]>>
                                \o ZipFilters(additional_attributes, additional_values,
                                              additional_operator),
                                <<>>, limit)]
             IN  QueryOutcome("ok", ConcatDocs(runs, Len(runs)), runs)

allowed_mixed_operators == {">=", "<=", "==", "!=", ">", "<", "in"}

\* list.pop(idx): the list without its idx-th element
PopAt(seq, idx) == SubSeq(seq, 1, idx - 1) \o SubSeq(seq, idx + 1, Len(seq))

\* _parse_conditions: a triple is kept as it is unless its attribute is a
\* date-time field and its value an ISO string; no condition tried names one.
_parse_conditions(conditions) ==
    [j \in 1..Len(conditions) |->
        [attr |-> conditions[j].attr, op |-> conditions[j].op, value |-> conditions[j].value]]

\* _query after `conditions = self._parse_conditions(conditions)`
_query_parsed(s, st, conditions, limit, order_by) ==
    LET operators == [j \in 1..Len(conditions) |-> Lower(conditions[j].op)]
        unique_operators == {operators[j] : j \in 1..Len(operators)}
        in_positions == {j \in 1..Len(operators) : operators[j] = "in"}
        in_operator_count == Cardinality(in_positions)
    IN  IF in_operator_count > 1 THEN QueryOutcome("ValueError", <<>>, <<>>)
        ELSE IF in_operator_count = 1
        THEN LET in_operator_idx == CHOOSE j \in in_positions : TRUE
                 in_condition == conditions[in_operator_idx]
                 rest == PopAt(conditions, in_operator_idx)
             IN  _query_in(s, st, in_condition.attr, in_condition.value,
                           [j \in 1..Len(rest) |-> rest[j].attr],
                           [j \in 1..Len(rest) |-> rest[j].value],
                           [j \in 1..Len(rest) |-> rest[j].op],
                           limit, order_by)
        ELSE IF /\ Cardinality(unique_operators) > 1
                /\ unique_operators \ allowed_mixed_operators # {}
        THEN QueryOutcome("ValueError", <<>>, <<>>)
        ELSE LET run == RunQuery(s, st, conditions, order_by, limit)
             IN  QueryOutcome("ok", run.docs, <<run>>)

_query(s, st, conditions, limit, order_by) ==
    _query_parsed(s, st, _parse_conditions(conditions), limit, order_by)

query_by_attribute(s, st, attribute, value, operator, limit, order_by) ==
    _query(s, st, <<[attr |-> attribute, op |-> operator, value |-> value]>>, limit, order_by)

\* zip(attributes, operators, values) of the condition list
ZipConditions(attributes, operators, values) ==
    [j \in 1..Min2(Len(attributes), Min2(Len(operators), Len(values))) |->
        [attr |-> attributes[j], op |-> operators[j], value |-> values[j]]]

query_by_attributes(s, st, attributes, values, operators, limit, order_by) ==
    IF Len(attributes) # Len(values) THEN QueryOutcome("ValueError", <<>>, <<>>)
    ELSE _query(s, st, ZipConditions(attributes, operators, values), limit, order_by)

\* get_by_attribute: [err, doc]; doc is meaningful when err = "ok".
get_by_attribute(s, st, attribute, value) ==
    LET q == query_by_attribute(s, st, attribute, value, "==", None, <<>>)
    IN  IF q.err # "ok" THEN [err |-> q.err, doc |-> <<>>]
        ELSE IF Len(q.docs) = 0 THEN [err |-> "NotFound", doc |-> <<>>]
        ELSE [err |-> "ok", doc |-> q.docs[1]]

\* get: [err, doc]
get(s, st, id) ==
    IF id \notin DOMAIN st THEN [err |-> "NotFound", doc |-> <<>>]
    ELSE [err |-> "ok", doc |-> FromDoc(s, st[id], id)]

\* ------------------------------------------------------- uniqueness check
\* _check_restrictions: the first unique key, in order, that raises decides;
\* NotFound means no clash on that key.
RECURSIVE _check_restrictions_from(_, _, _, _, _)
_check_restrictions_from(s, st, doc, is_update, k) ==
    IF k > Len(unique_keys) THEN "ok"
    ELSE LET key == unique_keys[k]
             found == get_by_attribute(s, st, key, doc[key])
         IN  IF found.err = "NotFound"
             THEN _check_restrictions_from(s, st, doc, is_update, k + 1)
             ELSE IF found.err # "ok" THEN found.err
             ELSE IF is_update /\ doc["id"] = found.doc["id"]
             THEN _check_restrictions_from(s, st, doc, is_update, k + 1)
             ELSE "Conflict"

\* A mutant of _check_restrictions: the self-match is not let through.
_check_restrictions_no_self(s, st, doc, is_update) ==
    _check_restrictions_from(s, st, doc, FALSE, 1)

_check_restrictions(s, st, doc, is_update) ==
    _check_restrictions_from(s, st, doc, is_update, 1)

RECURSIVE _check_restrictions_attributes_from(_, _, _, _, _)
_check_restrictions_attributes_from(s, st, doc_id, attributes, k) ==
    IF k > Len(unique_keys) THEN "ok"
    ELSE LET key == unique_keys[k]
         IN  IF key \notin DOMAIN attributes
             THEN _check_restrictions_attributes_from(s, st, doc_id, attributes, k + 1)
             ELSE LET found == get_by_attribute(s, st, key, attributes[key])
                  IN  IF found.err = "NotFound"
                      THEN _check_restrictions_attributes_from(s, st, doc_id, attributes, k + 1)
                      ELSE IF found.err # "ok" THEN found.err
                      ELSE IF doc_id = found.doc["id"]
                      THEN _check_restrictions_attributes_from(s, st, doc_id, attributes, k + 1)
                      ELSE "Conflict"

\* A mutant of _check_restrictions_attributes: no key is checked.
_check_restrictions_attributes_skipped(s, st, doc_id, attributes) == "ok"

_check_restrictions_attributes(s, st, doc_id, attributes) ==
    _check_restrictions_attributes_from(s, st, doc_id, attributes, 1)

\* ------------------------------------------------------------- mutations
\* A mutant of OwnerMissing: a null owner passes only with force and without
\* force_ownership.
OwnerMissing_strict(fo, owner, force) == owner = None /\ ~(force /\ ~fo)

\* if not force and (owner is None and self.force_ownership): raise ValueError
OwnerMissing(fo, owner, force) == ~force /\ (owner = None /\ fo)

Outcome(err, st, ret) == [err |-> err, store |-> st, ret |-> ret]

Dry(err, payload) == [err |-> err, payload |-> payload]

\* doc.<field> = value when the schema asks for it
SetFieldIf(cond, doc, field, v) == IF cond THEN SetField(doc, field, v) ELSE doc

\* insert, from the uniqueness check to `if dry_run: return doc`
insert_checked(s, st, doc) ==
    IF _check_restrictions(s, st, doc, FALSE) # "ok"
    THEN Dry(_check_restrictions(s, st, doc, FALSE), <<>>)
    ELSE Dry("ok", parse_document_to_dict(doc))

\* insert up to `if dry_run: return doc`: [err, payload]
insert_dry(s, fo, st, t, doc, owner, force) ==
    IF requires_owner_insert(s) /\ OwnerMissing(fo, owner, force)
    THEN Dry("ValueError", <<>>)
    ELSE insert_checked(s, st,
            SetFieldIf(requires_owner_insert(s), SetField(doc, "created_at", t),
                       "created_by", owner))

\* doc_ref.create(doc): fails when the id exists
DocCreate(st, id, payload) ==
    IF id \in DOMAIN st THEN Outcome("AlreadyExists", st, <<>>)
    ELSE Outcome("ok", Put(st, id, payload), <<>>)

\* doc = doc_ref.get(); return self.schema(**{**doc.to_dict(), 'id': doc.id})
insert_read_back(s, created, new_id) ==
    IF created.err # "ok" THEN created
    ELSE Outcome("ok", created.store, <<FromDoc(s, created.store[new_id], new_id)>>)

\* new_id = doc.pop('id', None); if new_id is None: new_id = str(ObjectId())
NewId(payload, object_id) == IF payload["id"] = None THEN object_id ELSE payload["id"]

\* A mutant of insert_write: the uniqueness check is made again, in one step
\* with the write.
insert_write_rechecked(s, st, dry, object_id) ==
    IF dry.err # "ok" THEN Outcome(dry.err, st, <<>>)
    ELSE IF get_by_attribute(s, st, "email", dry.payload["email"]).err = "ok"
    THEN Outcome("Conflict", st, <<>>)
    ELSE insert_read_back(s,
            DocCreate(st, NewId(dry.payload, object_id), Without(dry.payload, "id")),
            NewId(dry.payload, object_id))

\* insert after the dry part; object_id is the value str(ObjectId()) would give
insert_write(s, st, dry, object_id) ==
    IF dry.err # "ok" THEN Outcome(dry.err, st, <<>>)
    ELSE insert_read_back(s,
            DocCreate(st, NewId(dry.payload, object_id), Without(dry.payload, "id")),
            NewId(dry.payload, object_id))

insert(s, fo, st, t, doc, owner, force, object_id) ==
    insert_write(s, st, insert_dry(s, fo, st, t, doc, owner, force), object_id)

\* update, from the stamping of updated_at to `if dry_run: return doc`
update_stamped(s, fo, t, doc, owner, force) ==
    IF requires_owner_update(s) /\ OwnerMissing(fo, owner, force)
    THEN Dry("ValueError", <<>>)
    ELSE Dry("ok", parse_document_to_dict(
            SetFieldIf(requires_owner_update(s),
                       SetFieldIf(is_updatable(s), doc, "updated_at", t),
                       "updated_by", owner)))

\* update up to `if dry_run: return doc`: [err, payload]
update_dry(s, fo, st, t, doc, owner, force) ==
    IF doc["id"] = None THEN Dry("ValueError", <<>>)
    ELSE IF _check_restrictions(s, st, doc, TRUE) # "ok"
    THEN Dry(_check_restrictions(s, st, doc, TRUE), <<>>)
    ELSE update_stamped(s, fo, t, doc, owner, force)

\* A mutant of update_write: doc_ref.set(doc), without merge.
update_write_replace(st, doc_id, dry) ==
    IF dry.err # "ok" THEN Outcome(dry.err, st, <<>>)
    ELSE Outcome("ok", DocSet(st, doc_id, dry.payload), <<>>)

\* doc_ref.set(doc, merge=True): the payload, its `id` key included
update_write(st, doc_id, dry) ==
    IF dry.err # "ok" THEN Outcome(dry.err, st, <<>>)
    ELSE Outcome("ok", DocSetMerge(st, doc_id, dry.payload), <<>>)

update(s, fo, st, t, doc, owner, force) ==
    update_write(st, doc["id"], update_dry(s, fo, st, t, doc, owner, force))

\* dict[key] = value
SetKey(d, key, v) == [k \in DOMAIN d \cup {key} |-> IF k = key THEN v ELSE d[k]]

SetKeyIf(cond, d, key, v) == IF cond THEN SetKey(d, key, v) ELSE d

\* update_attributes, from the stamping of updated_at to the parsed payload
update_attributes_stamped(s, fo, t, attributes, owner, force) ==
    IF requires_owner_update(s) /\ OwnerMissing(fo, owner, force)
    THEN Dry("ValueError", <<>>)
    ELSE Dry("ok", parse_attributes_to_dict(
            SetKeyIf(requires_owner_update(s),
                     SetKeyIf(is_updatable(s), attributes, "updated_at", t),
                     "updated_by", owner)))

\* The payload update_attributes writes: [err, payload]
update_attributes_payload(s, fo, st, t, doc_id, attributes, owner, force) ==
    IF doc_id = None THEN Dry("ValueError", <<>>)
    ELSE IF \E key \in DOMAIN attributes : ~has_attribute(s, key)
    THEN Dry("KeyError", <<>>)
    ELSE IF _check_restrictions_attributes(s, st, doc_id, attributes) # "ok"
    THEN Dry(_check_restrictions_attributes(s, st, doc_id, attributes), <<>>)
    ELSE update_attributes_stamped(s, fo, t, attributes, owner, force)

\* doc_ref.update(payload): fails when the document is absent
DocUpdate(st, id, payload) ==
    IF id \notin DOMAIN st THEN Outcome("NotFound", st, <<>>)
    ELSE Outcome("ok", Put(st, id, Merge(st[id], payload)), <<>>)

\* A mutant of update_attributes_write: the document is replaced by the payload.
update_attributes_write_replace(st, doc_id, p) ==
    IF p.err # "ok" THEN Outcome(p.err, st, <<>>)
    ELSE IF doc_id \notin DOMAIN st THEN Outcome("NotFound", st, <<>>)
    ELSE Outcome("ok", DocSet(st, doc_id, p.payload), <<>>)

update_attributes_write(st, doc_id, p) ==
    IF p.err # "ok" THEN Outcome(p.err, st, <<>>)
    ELSE DocUpdate(st, doc_id, p.payload)

update_attributes(s, fo, st, t, doc_id, attributes, owner, force) ==
    update_attributes_write(st, doc_id,
        update_attributes_payload(s, fo, st, t, doc_id, attributes, owner, force))

\* update_attribute: the single-key form
update_attribute(s, fo, st, t, doc_id, attribute, value, owner, force) ==
    update_attributes(s, fo, st, t, doc_id, [k \in {attribute} |-> value], owner, force)

True == 1

\* The audit fields delete merge-writes before the hard delete.
DeleteMark(s, t, owner) ==
    IF is_updatable(s)
    THEN [k \in {"updated_at", "updated_by", "deleted"} |->
            CASE k = "updated_at" -> t [] k = "updated_by" -> owner [] k = "deleted" -> True]
    ELSE [k \in {"deleted"} |-> True]

\* delete's first part: [err, mark, store]; mark says the mark was written
delete_mark(s, fo, st, t, id, owner, force) ==
    IF IsSchemaWithOwner(s)
    THEN IF OwnerMissing(fo, owner, force)
         THEN [err |-> "ValueError", mark |-> FALSE, store |-> st]
         ELSE IF owner # None
              THEN [err |-> "ok", mark |-> TRUE,
                    store |-> DocSetMerge(st, id, DeleteMark(s, t, owner))]
              ELSE [err |-> "ok", mark |-> FALSE, store |-> st]
    ELSE [err |-> "ok", mark |-> FALSE, store |-> st]

\* ------------------------------------------------------------------ bulk
\* The first error of a list of dry runs, "ok" when there is none.
RECURSIVE FirstError(_, _)
FirstError(dries, k) ==
    IF k > Len(dries) THEN "ok"
    ELSE IF dries[k].err # "ok" THEN dries[k].err
    ELSE FirstError(dries, k + 1)

BulkDry(err, docs) == [err |-> err, docs |-> docs]

\* A mutant of bulk_insert_parsed: an item whose dry run fails is left out.
bulk_insert_parsed_lenient(dries) ==
    BulkDry("ok", [j \in 1..Len(SelectSeq(dries, LAMBDA d : d.err = "ok")) |->
                        SelectSeq(dries, LAMBDA d : d.err = "ok")[j].payload])

\* The dry inserts of bulk_insert, once every one of them has run.
bulk_insert_parsed(dries) ==
    IF FirstError(dries, 1) # "ok" THEN BulkDry(FirstError(dries, 1), <<>>)
    ELSE BulkDry("ok", [j \in 1..Len(dries) |-> dries[j].payload])

\* bulk_insert up to `write_batch = WriteBatch(...)`: [err, docs]
bulk_insert_dry(s, fo, st, t, docs, owner, force, batch_size) ==
    IF batch_size <= 0 THEN BulkDry("ValueError", <<>>)
    ELSE IF Len(docs) = 0 THEN BulkDry("ValueError", <<>>)
    ELSE bulk_insert_parsed(
            [j \in 1..Len(docs) |-> insert_dry(s, fo, st, t, docs[j], owner, force)])

\* bulk_update up to `write_batch = WriteBatch(...)`: [err, docs]
bulk_update_dry(s, fo, st, t, docs, owner, force, batch_size) ==
    IF batch_size <= 0 THEN BulkDry("ValueError", <<>>)
    ELSE IF Len(docs) = 0 THEN BulkDry("ValueError", <<>>)
    ELSE bulk_insert_parsed(
            [j \in 1..Len(docs) |-> update_dry(s, fo, st, t, docs[j], owner, force)])

\* bulk_delete up to `write_batch = WriteBatch(...)`: [err, update_before_delete]
bulk_delete_check(s, fo, doc_ids, owner, force, batch_size) ==
    IF batch_size <= 0 THEN [err |-> "ValueError", update_before_delete |-> FALSE]
    ELSE IF Len(doc_ids) = 0 THEN [err |-> "ValueError", update_before_delete |-> FALSE]
    ELSE IF IsSchemaWithOwner(s) /\ OwnerMissing(fo, owner, force)
    THEN [err |-> "ValueError", update_before_delete |-> FALSE]
    ELSE [err |-> "ok", update_before_delete |-> IsSchemaWithOwner(s) /\ owner # None]

\* write_batch.create(reference=..., document_data=doc)
BatchCreate(write_batch, doc_id, doc) ==
    Append(write_batch, [kind |-> "create", id |-> doc_id, data |-> doc])

\* write_batch.set(reference=..., document_data=doc, merge=merge)
BatchSet(write_batch, doc_id, doc, merge) ==
    Append(write_batch, [kind |-> "set", id |-> doc_id, data |-> doc, merge |-> merge])

\* write_batch.delete(reference=...)
BatchDelete(write_batch, doc_id) ==
    Append(write_batch, [kind |-> "delete", id |-> doc_id])

\* What one turn of bulk_delete's loop adds to the batch: the mark when the
\* call has an owner on an owner schema, and the delete.
bulk_delete_writes(s, t, write_batch, doc_id, owner, update_before_delete) ==
    BatchDelete(IF update_before_delete
                THEN BatchSet(write_batch, doc_id, DeleteMark(s, t, owner), TRUE)
                ELSE write_batch,
                doc_id)

\* A mutant of commit_trailing: the batch is committed after every loop.
commit_trailing_always(i, batch_size) == TRUE

\* if (i + 1) % batch_size == 0, in the loop
commit_due(i, batch_size) == (i + 1) % batch_size = 0

\* if (i + 1) % batch_size != 0, after the loop; i is the last index
commit_trailing(i, batch_size) == (i + 1) % batch_size # 0

\* One write of a batch on the store.
ApplyWrite(st, w) ==
    IF w.kind = "create" THEN DocCreate(st, w.id, w.data)
    ELSE IF w.kind = "set"
    THEN Outcome("ok", IF w.merge THEN DocSetMerge(st, w.id, w.data)
                       ELSE DocSet(st, w.id, w.data), <<>>)
    ELSE IF w.kind = "delete" THEN Outcome("ok", DocDelete(st, w.id), <<>>)
    ELSE Outcome("ok", st, <<>>)

RECURSIVE ApplyWrites(_, _, _)
ApplyWrites(st, write_batch, k) ==
    IF k > Len(write_batch) THEN Outcome("ok", st, <<>>)
    ELSE IF ApplyWrite(st, write_batch[k]).err # "ok" THEN ApplyWrite(st, write_batch[k])
    ELSE ApplyWrites(ApplyWrite(st, write_batch[k]).store, write_batch, k + 1)

\* write_batch.commit(): every write of the batch, or none of them
Commit(st, write_batch) ==
    IF ApplyWrites(st, write_batch, 1).err # "ok"
    THEN Outcome(ApplyWrites(st, write_batch, 1).err, st, <<>>)
    ELSE ApplyWrites(st, write_batch, 1)

\* ------------------------------------------------------------------ state
VARIABLES
    schema,           \* the collection's schema variant
    force_ownership,  \* Collection(force_ownership=...)
    store,            \* the collection's documents, by id
    now,              \* datetime.utcnow()
    pc,               \* the call in progress, between two of its store writes
                      \* (under SpecRace: of each caller)
    result,           \* the call the caller is in: its operation and arguments,
                      \* the store as the call found it, its error and its
                      \* return value; NoResult between two calls
                      \* (under SpecRace: of each caller)
    queries,          \* the store queries the last query call issued, in order
    submissions       \* the batches the bulk call committed, in order

vars == <<schema, force_ownership, store, now, pc, result, queries, submissions>>

Idle == [kind |-> "idle", id |-> None, docs |-> <<>>, i |-> 0, batch_size |-> 0,
         write_batch |-> <<>>, merge |-> FALSE, owner |-> None,
         update_before_delete |-> FALSE]

Result(op, id, doc, owner, force, before, err, ret) ==
    [op |-> op, id |-> id, doc |-> doc, owner |-> owner, force |-> force,
     before |-> before, err |-> err, ret |-> ret]

NoResult == Result("none", None, <<>>, None, FALSE, <<>>, "ok", <<>>)

\* Records a caller constructs: the audit fields are not set.
InputRecords(s) ==
    {[f \in SchemaProps(s) |->
        CASE f = "id" -> id [] f = "email" -> email
          [] f = "password" -> password [] OTHER -> None] :
        id \in {None} \cup Ids, email \in Emails, password \in Passwords}

\* Records a caller fetched with get and changed in at most one field.
FetchedRecords(s, st) ==
    UNION {{FromDoc(s, st[id], id)}
            \cup {SetField(FromDoc(s, st[id], id), "email", v) : v \in Emails}
            \cup {SetField(FromDoc(s, st[id], id), "password", v) : v \in Passwords} :
           id \in DOMAIN st}

\* The ids str(ObjectId()) may give a call that inserts doc: new to the
\* collection.  None stands for a call that never asks for one.
ObjectIds(st, doc) ==
    IF doc["id"] # None \/ Ids \ DOMAIN st = {} THEN {None} ELSE Ids \ DOMAIN st

\* The (owner, force) arguments tried: a collection of a schema without an
\* ownership model is called without them.
OwnerArgs(s) ==
    IF requires_owner_insert(s) THEN Owners \X BOOLEAN ELSE {<<None, FALSE>>}

InitConfig ==
    /\ schema \in SchemaVariants
    /\ force_ownership \in BOOLEAN
    /\ now = 1
    /\ pc = Idle
    /\ result = NoResult
    /\ queries = <<>>
    /\ submissions = <<>>

\* The collection is either empty when the Collection object is made, or holds
\* one document that an insert of this engine wrote and to which another
\* writer of the database added a field the schema does not declare.
SeedRecord(s) == CHOOSE r \in InputRecords(s) : r["id"] = 1 /\ r["email"] = 1 /\ r["password"] = None

LegacyStore(s) ==
    Put(EmptyStore, 1,
        SetKey(insert(s, FALSE, EmptyStore, 1, SeedRecord(s), 1, FALSE, None).store[1],
               "legacy", 1))

Init ==
    /\ InitConfig
    /\ store \in {EmptyStore, LegacyStore(schema)}

\* A call starts when the caller is in no call, and takes one tick.
CanCall ==
    /\ pc.kind = "idle"
    /\ result.op = "none"
    /\ now <= MaxClock

InsertCall(doc, owner, force, object_id) ==
    /\ CanCall
    /\ \E r \in {insert(schema, force_ownership, store, now, doc, owner, force, object_id)} :
        /\ r.err = "ok" => r.ret[1]["id"] # None
        /\ store' = r.store
        /\ result' = Result("insert", IF r.err = "ok" THEN r.ret[1]["id"] ELSE doc["id"],
                            doc, owner, force, store, r.err, r.ret)
    /\ now' = now + 1
    /\ UNCHANGED <<schema, force_ownership, pc, queries, submissions>>

Insert ==
    /\ CanCall
    /\ \E doc \in InputRecords(schema), of \in OwnerArgs(schema) :
        \E object_id \in ObjectIds(store, doc) :
            InsertCall(doc, of[1], of[2], object_id)

UpdateCall(doc, owner, force) ==
    /\ CanCall
    /\ \E r \in {update(schema, force_ownership, store, now, doc, owner, force)} :
        /\ store' = r.store
        /\ result' = Result("update", doc["id"], doc, owner, force, store, r.err, <<>>)
    /\ now' = now + 1
    /\ UNCHANGED <<schema, force_ownership, pc, queries, submissions>>

Update ==
    /\ CanCall
    /\ \E doc \in InputRecords(schema) \cup FetchedRecords(schema, store),
          of \in OwnerArgs(schema) :
        UpdateCall(doc, of[1], of[2])

\* The attribute maps tried: one key, or two fields of the largest schema;
\* `nickname` is no field of any schema.
AttributeKeys == {"email", "password", "updated_at", "nickname"}

AttributeValues(key) ==
    CASE key = "email" -> Emails
      [] key = "password" -> Passwords
      [] OTHER -> {1}

AttributeMaps ==
    UNION {{m \in [keys -> UNION {AttributeValues(k) : k \in keys}] :
                \A k \in keys : m[k] \in AttributeValues(k)} :
            keys \in {ks \in SUBSET AttributeKeys :
                        \/ Cardinality(ks) = 1
                        \/ Cardinality(ks) = 2 /\ "nickname" \notin ks}}

UpdateAttributesCall(doc_id, attributes, owner, force) ==
    /\ CanCall
    /\ \E r \in {update_attributes(schema, force_ownership, store, now, doc_id, attributes,
                                   owner, force)} :
        /\ store' = r.store
        /\ result' = Result("update_attributes", doc_id, attributes, owner, force, store,
                            r.err, <<>>)
    /\ now' = now + 1
    /\ UNCHANGED <<schema, force_ownership, pc, queries, submissions>>

UpdateAttributes ==
    /\ CanCall
    /\ \E doc_id \in {None} \cup Ids, attributes \in AttributeMaps,
          of \in OwnerArgs(schema) :
        UpdateAttributesCall(doc_id, attributes, of[1], of[2])

\* update_attribute(doc_id, attribute, value): the call of update_attributes
\* it makes.
UpdateAttribute ==
    /\ CanCall
    /\ \E doc_id \in Ids, attribute \in AttributeKeys, of \in OwnerArgs(schema) :
        \E value \in AttributeValues(attribute) :
            /\ \E r \in {update_attribute(schema, force_ownership, store, now, doc_id,
                                          attribute, value, of[1], of[2])} :
                /\ store' = r.store
                /\ result' = Result("update_attribute", doc_id,
                                    [k \in {attribute} |-> value], of[1], of[2], store,
                                    r.err, <<>>)
            /\ now' = now + 1
            /\ UNCHANGED <<schema, force_ownership, pc, queries, submissions>>

\* delete, up to its first store write: the mark when there is one, the hard
\* delete otherwise.
DeleteCall(id, owner, force) ==
    /\ CanCall
    /\ \E m \in {delete_mark(schema, force_ownership, store, now, id, owner, force)} :
        /\ store' = IF m.err = "ok" /\ ~m.mark THEN DocDelete(store, id) ELSE m.store
        /\ pc' = IF m.mark THEN [Idle EXCEPT !.kind = "delete", !.id = id] ELSE Idle
        /\ result' = Result("delete", id, <<>>, owner, force, store,
                            IF m.mark THEN "running" ELSE m.err, <<>>)
    /\ now' = now + 1
    /\ UNCHANGED <<schema, force_ownership, queries, submissions>>

Delete ==
    /\ CanCall
    /\ \E id \in Ids, of \in OwnerArgs(schema) : DeleteCall(id, of[1], of[2])

\* delete's last line, after the mark: self.collection.document(id).delete()
DeleteFinish ==
    /\ pc.kind = "delete"
    /\ store' = DocDelete(store, pc.id)
    /\ pc' = Idle
    /\ result' = [result EXCEPT !.err = "ok"]
    /\ UNCHANGED <<schema, force_ownership, now, queries, submissions>>

GetCall(id) ==
    /\ pc.kind = "idle"
    /\ result.op = "none"
    /\ \E g \in {get(schema, store, id)} :
        result' = Result("get", id, <<>>, None, FALSE, store, g.err,
                         IF g.err = "ok" THEN <<g.doc>> ELSE <<>>)
    /\ UNCHANGED <<schema, force_ownership, store, now, pc, queries, submissions>>

Get == \E id \in Ids : GetCall(id)

\* The call returns to the caller, which may then start the next one.
Return ==
    /\ pc.kind = "idle"
    /\ result.op # "none"
    /\ result' = NoResult
    /\ queries' = <<>>
    /\ submissions' = <<>>
    /\ UNCHANGED <<schema, force_ownership, store, now, pc>>

Next ==
    \/ Insert
    \/ Update
    \/ UpdateAttributes
    \/ UpdateAttribute
    \/ Delete
    \/ DeleteFinish
    \/ Get
    \/ Return

Spec == Init /\ [][Next]_vars

\* ------------------------------------------------------------------ queries
\* A record as a caller constructs it.
Record(s, id, email, password) ==
    [f \in SchemaProps(s) |->
        CASE f = "id" -> id [] f = "email" -> email
          [] f = "password" -> password [] OTHER -> None]

\* The emails of the queried collections: one in the first chunk of the value
\* lists below and one in the second.
QueryEmails == {1, ChunkSize + 1}

\* The store after insert of (email, a password when the email is 1) under id.
Seeded(s, st, id, email) ==
    insert(s, FALSE, st, id,
           Record(s, id, email, IF email = 1 THEN Secret(1) ELSE None),
           1, FALSE, None).store

\* The collections queried: what inserts of at most MaxId records leave.
QueryStores(s) ==
    {EmptyStore}
    \cup {Seeded(s, EmptyStore, 1, e) : e \in QueryEmails}
    \cup {Seeded(s, Seeded(s, EmptyStore, 1, e[1]), 2, e[2]) :
            e \in {x \in QueryEmails \X QueryEmails : x[1] # x[2]}}

InitQuery ==
    /\ schema \in SchemaVariants
    /\ force_ownership = FALSE
    /\ store \in QueryStores(schema)
    /\ now = Cardinality(DOMAIN store) + 1
    /\ pc = Idle
    /\ result = NoResult
    /\ queries = <<>>
    /\ submissions = <<>>

\* The value list 1, 2, ..., L of an `in` condition.
InValues(L) == [j \in 1..L |-> j]

Operators == {"==", "<", "in", "IN", "array_contains"}

QueryAttributes == {"email", "password"}

Limits == {None, 1}

OrderBys == {<<>>, <<[attr |-> "email", direction |-> "DESCENDING"]>>}

\* The conditions of the lists tried by query_by_attributes.
Conditions ==
    UNION {{[attr |-> a, op |-> o, value |-> v] :
                v \in IF Lower(o) = "in" THEN {InValues(1), InValues(ChunkSize + 1)} ELSE {1}} :
            a \in QueryAttributes, o \in Operators}

QueryArgs(attributes, values, operators, limit, order_by) ==
    [attributes |-> attributes, values |-> values, operators |-> operators,
     limit |-> limit, order_by |-> order_by]

QueryByAttributeCall(attribute, value, operator, limit, order_by) ==
    /\ pc.kind = "idle"
    /\ result.op = "none"
    /\ \E q \in {query_by_attribute(schema, store, attribute, value, operator, limit, order_by)} :
        /\ result' = Result("query_by_attribute", None,
                            QueryArgs(<<attribute>>, <<value>>, <<operator>>, limit, order_by),
                            None, FALSE, store, q.err, q.docs)
        /\ queries' = q.issued
    /\ UNCHANGED <<schema, force_ownership, store, now, pc, submissions>>

QueryByAttribute ==
    /\ pc.kind = "idle"
    /\ result.op = "none"
    /\ \E attribute \in QueryAttributes, operator \in Operators,
          limit \in Limits, order_by \in OrderBys :
        \E value \in IF Lower(operator) = "in"
                      THEN {InValues(L) : L \in 0..MaxInLen} ELSE {1} :
            QueryByAttributeCall(attribute, value, operator, limit, order_by)

QueryByAttributesCall(attributes, values, operators, limit, order_by) ==
    /\ pc.kind = "idle"
    /\ result.op = "none"
    /\ \E q \in {query_by_attributes(schema, store, attributes, values, operators, limit,
                                      order_by)} :
        /\ result' = Result("query_by_attributes", None,
                            QueryArgs(attributes, values, operators, limit, order_by),
                            None, FALSE, store, q.err, q.docs)
        /\ queries' = q.issued
    /\ UNCHANGED <<schema, force_ownership, store, now, pc, submissions>>

\* The three lists are prefixes of the columns of a list of two conditions,
\* each of its own length.
QueryByAttributes ==
    /\ pc.kind = "idle"
    /\ result.op = "none"
    /\ \E c1 \in Conditions, c2 \in Conditions, na \in 0..2, nv \in 0..2, no \in 0..2,
          limit \in Limits, order_by \in OrderBys :
        QueryByAttributesCall(SubSeq(<<c1.attr, c2.attr>>, 1, na),
                              SubSeq(<<c1.value, c2.value>>, 1, nv),
                              SubSeq(<<c1.op, c2.op>>, 1, no),
                              limit, order_by)

NextQuery ==
    \/ QueryByAttribute
    \/ QueryByAttributes
    \/ Return

SpecQuery == InitQuery /\ [][NextQuery]_vars

\* ------------------------------------------------------------------ bulk calls
BulkIds == 1..(MaxId + MaxBulk)

\* The records of the lists tried by the bulk calls.
BulkRecords(s) ==
    {Record(s, id, email, None) : id \in {None} \cup Ids, email \in Emails}

\* The lists of at most n records.
RECURSIVE BulkLists(_, _)
BulkLists(s, n) ==
    IF n = 0 THEN {<<>>}
    ELSE BulkLists(s, n - 1)
         \cup {Append(l, r) : l \in {x \in BulkLists(s, n - 1) : Len(x) = n - 1},
                              r \in BulkRecords(s)}

BulkArgs(docs, batch_size) == [docs |-> docs, batch_size |-> batch_size]

\* str(ObjectId()): an id that is neither stored, nor pending in the batch, nor
\* the id of an item of the call.
FreshId(st, docs, write_batch) ==
    CHOOSE id \in BulkIds :
        /\ id \notin DOMAIN st
        /\ \A j \in 1..Len(docs) : docs[j]["id"] # id
        /\ \A j \in 1..Len(write_batch) : write_batch[j].id # id
        /\ \A other \in BulkIds :
                (/\ other \notin DOMAIN st
                 /\ \A j \in 1..Len(docs) : docs[j]["id"] # other
                 /\ \A j \in 1..Len(write_batch) : write_batch[j].id # other) => id <= other

\* A bulk call starts like any call, and at most MaxBulkCalls of them do.
CanCallBulk == CanCall /\ now <= MaxBulkCalls

\* bulk_insert up to the loop
BulkInsertCall(docs, owner, force, batch_size) ==
    /\ CanCallBulk
    /\ \E d \in {bulk_insert_dry(schema, force_ownership, store, now, docs, owner, force,
                                 batch_size)} :
        /\ pc' = IF d.err # "ok" THEN Idle
                 ELSE [Idle EXCEPT !.kind = "bulk_insert", !.docs = d.docs,
                                   !.batch_size = batch_size]
        /\ result' = Result("bulk_insert", None, BulkArgs(docs, batch_size), owner, force,
                            store, IF d.err # "ok" THEN d.err ELSE "running", <<>>)
    /\ now' = now + 1
    /\ submissions' = <<>>
    /\ UNCHANGED <<schema, force_ownership, store, queries>>

BulkInsert ==
    /\ CanCallBulk
    /\ \E docs \in BulkLists(schema, MaxBulk), of \in OwnerArgs(schema),
          batch_size \in 0..MaxBatch :
        BulkInsertCall(docs, of[1], of[2], batch_size)

\* A mutant of Submit: a failed commit is swallowed and the loop goes on.
Submit_swallow(write_batch, i) ==
    \E c \in {Commit(store, write_batch), Outcome("ServiceUnavailable", store, <<>>)} :
        /\ submissions' = Append(submissions, [writes |-> write_batch, err |-> c.err])
        /\ store' = c.store
        /\ pc' = IF i > Len(pc.docs) THEN Idle
                 ELSE [pc EXCEPT !.i = i, !.write_batch = <<>>]
        /\ result' = IF i > Len(pc.docs) THEN [result EXCEPT !.err = "ok"] ELSE result

\* The commit of the batch: the call goes on when it succeeds and raises
\* when it fails, be it on a write of the batch or on the service.
Submit(write_batch, i) ==
    \E c \in {Commit(store, write_batch), Outcome("ServiceUnavailable", store, <<>>)} :
        /\ submissions' = Append(submissions, [writes |-> write_batch, err |-> c.err])
        /\ store' = c.store
        /\ pc' = IF c.err # "ok" \/ i > Len(pc.docs) THEN Idle
                 ELSE [pc EXCEPT !.i = i, !.write_batch = <<>>]
        /\ result' = IF c.err # "ok" THEN [result EXCEPT !.err = c.err]
                     ELSE IF i > Len(pc.docs) THEN [result EXCEPT !.err = "ok"]
                     ELSE result

\* One turn of bulk_insert's loop: item pc.i (counted from 0) joins the batch,
\* which is committed when it is full.
BulkInsertStep ==
    /\ pc.kind = "bulk_insert"
    /\ pc.i < Len(pc.docs)
    /\ \E doc \in {pc.docs[pc.i + 1]} :
        \E write_batch \in {BatchCreate(pc.write_batch,
                                        NewId(doc, FreshId(store, pc.docs, pc.write_batch)),
                                        Without(doc, "id"))} :
            IF commit_due(pc.i, pc.batch_size)
            THEN Submit(write_batch, pc.i + 1)
            ELSE /\ pc' = [pc EXCEPT !.i = pc.i + 1, !.write_batch = write_batch]
                 /\ UNCHANGED <<store, result, submissions>>
    /\ UNCHANGED <<schema, force_ownership, now, queries>>

\* bulk_insert after the loop: the batch left over is committed.
BulkInsertFinish ==
    /\ pc.kind = "bulk_insert"
    /\ pc.i = Len(pc.docs)
    /\ IF commit_trailing(pc.i - 1, pc.batch_size)
       THEN Submit(pc.write_batch, pc.i + 1)
       ELSE /\ pc' = Idle
            /\ result' = [result EXCEPT !.err = "ok"]
            /\ UNCHANGED <<store, submissions>>
    /\ UNCHANGED <<schema, force_ownership, now, queries>>

BulkUpdateArgs(docs, merge, batch_size) ==
    [docs |-> docs, merge |-> merge, batch_size |-> batch_size]

\* bulk_update up to the loop
BulkUpdateCall(docs, owner, force, merge, batch_size) ==
    /\ CanCallBulk
    /\ \E d \in {bulk_update_dry(schema, force_ownership, store, now, docs, owner, force,
                                 batch_size)} :
        /\ pc' = IF d.err # "ok" THEN Idle
                 ELSE [Idle EXCEPT !.kind = "bulk_update", !.docs = d.docs,
                                   !.batch_size = batch_size, !.merge = merge]
        /\ result' = Result("bulk_update", None, BulkUpdateArgs(docs, merge, batch_size),
                            owner, force, store,
                            IF d.err # "ok" THEN d.err ELSE "running", <<>>)
    /\ now' = now + 1
    /\ submissions' = <<>>
    /\ UNCHANGED <<schema, force_ownership, store, queries>>

BulkUpdate ==
    /\ CanCallBulk
    /\ \E docs \in BulkLists(schema, MaxBulk), of \in OwnerArgs(schema),
          merge \in BOOLEAN, batch_size \in 0..MaxBatch :
        BulkUpdateCall(docs, of[1], of[2], merge, batch_size)

\* One turn of bulk_update's loop.
BulkUpdateStep ==
    /\ pc.kind = "bulk_update"
    /\ pc.i < Len(pc.docs)
    /\ \E doc \in {pc.docs[pc.i + 1]} :
        \E write_batch \in {BatchSet(pc.write_batch,
                                     NewId(doc, FreshId(store, pc.docs, pc.write_batch)),
                                     Without(doc, "id"), pc.merge)} :
            IF commit_due(pc.i, pc.batch_size)
            THEN Submit(write_batch, pc.i + 1)
            ELSE /\ pc' = [pc EXCEPT !.i = pc.i + 1, !.write_batch = write_batch]
                 /\ UNCHANGED <<store, result, submissions>>
    /\ UNCHANGED <<schema, force_ownership, now, queries>>

\* bulk_update after the loop
BulkUpdateFinish ==
    /\ pc.kind = "bulk_update"
    /\ pc.i = Len(pc.docs)
    /\ IF commit_trailing(pc.i - 1, pc.batch_size)
       THEN Submit(pc.write_batch, pc.i + 1)
       ELSE /\ pc' = Idle
            /\ result' = [result EXCEPT !.err = "ok"]
            /\ UNCHANGED <<store, submissions>>
    /\ UNCHANGED <<schema, force_ownership, now, queries>>

\* The lists of at most n document ids.
RECURSIVE IdLists(_)
IdLists(n) ==
    IF n = 0 THEN {<<>>}
    ELSE IdLists(n - 1)
         \cup {Append(l, id) : l \in {x \in IdLists(n - 1) : Len(x) = n - 1}, id \in Ids}

\* bulk_delete up to the loop
BulkDeleteCall(doc_ids, owner, force, batch_size) ==
    /\ CanCallBulk
    /\ \E d \in {bulk_delete_check(schema, force_ownership, doc_ids, owner, force,
                                   batch_size)} :
        /\ pc' = IF d.err # "ok" THEN Idle
                 ELSE [Idle EXCEPT !.kind = "bulk_delete", !.docs = doc_ids,
                                   !.batch_size = batch_size, !.owner = owner,
                                   !.update_before_delete = d.update_before_delete]
        /\ result' = Result("bulk_delete", None, BulkArgs(doc_ids, batch_size), owner, force,
                            store, IF d.err # "ok" THEN d.err ELSE "running", <<>>)
    /\ now' = now + 1
    /\ submissions' = <<>>
    /\ UNCHANGED <<schema, force_ownership, store, queries>>

BulkDelete ==
    /\ CanCallBulk
    /\ \E doc_ids \in IdLists(MaxBulk), of \in OwnerArgs(schema),
          batch_size \in 0..MaxBatch :
        BulkDeleteCall(doc_ids, of[1], of[2], batch_size)

\* One turn of bulk_delete's loop.
BulkDeleteStep ==
    /\ pc.kind = "bulk_delete"
    /\ pc.i < Len(pc.docs)
    /\ \E write_batch \in {bulk_delete_writes(schema, now, pc.write_batch, pc.docs[pc.i + 1],
                                               pc.owner, pc.update_before_delete)} :
        IF commit_due(pc.i, pc.batch_size)
        THEN Submit(write_batch, pc.i + 1)
        ELSE /\ pc' = [pc EXCEPT !.i = pc.i + 1, !.write_batch = write_batch]
             /\ UNCHANGED <<store, result, submissions>>
    /\ UNCHANGED <<schema, force_ownership, now, queries>>

\* bulk_delete after the loop
BulkDeleteFinish ==
    /\ pc.kind = "bulk_delete"
    /\ pc.i = Len(pc.docs)
    /\ IF commit_trailing(pc.i - 1, pc.batch_size)
       THEN Submit(pc.write_batch, pc.i + 1)
       ELSE /\ pc' = Idle
            /\ result' = [result EXCEPT !.err = "ok"]
            /\ UNCHANGED <<store, submissions>>
    /\ UNCHANGED <<schema, force_ownership, now, queries>>

NextBulk ==
    \/ BulkInsert
    \/ BulkInsertStep
    \/ BulkInsertFinish
    \/ BulkUpdate
    \/ BulkUpdateStep
    \/ BulkUpdateFinish
    \/ BulkDelete
    \/ BulkDeleteStep
    \/ BulkDeleteFinish
    \/ Return

SpecBulk == Init /\ [][NextBulk]_vars

\* ------------------------------------------------------------- concurrent inserts
\* The two callers of one Collection's insert, each in its own thread or
\* process.
Callers == {1, 2}

InitRace ==
    /\ schema \in SchemaVariants
    /\ force_ownership \in BOOLEAN
    /\ store \in {EmptyStore, LegacyStore(schema)}
    /\ now = 1
    /\ pc = [c \in Callers |-> Idle]
    /\ result = [c \in Callers |-> NoResult]
    /\ queries = <<>>
    /\ submissions = <<>>

\* Caller c runs insert up to and without `new_id = doc.pop('id', None)`: the
\* owner rule, the uniqueness check (its store query) and the parse.
RaceInsertCheckCall(c, doc, owner, force) ==
    /\ pc[c].kind = "idle"
    /\ result[c].op = "none"
    /\ \E d \in {insert_dry(schema, force_ownership, store, now, doc, owner, force)} :
        /\ pc' = [pc EXCEPT ![c] =
                    IF d.err # "ok" THEN Idle
                    ELSE [Idle EXCEPT !.kind = "insert", !.docs = <<d.payload>>]]
        /\ result' = [result EXCEPT ![c] =
                        Result("insert", doc["id"], doc, owner, force, store,
                               IF d.err # "ok" THEN d.err ELSE "running", <<>>)]
    /\ now' = now + 1
    /\ UNCHANGED <<schema, force_ownership, store, queries, submissions>>

RaceInsertCheck ==
    \E c \in Callers, doc \in InputRecords(schema), of \in OwnerArgs(schema) :
        RaceInsertCheckCall(c, doc, of[1], of[2])

\* Caller c runs the rest of insert: the id, doc_ref.create and the read back.
RaceInsertWrite ==
    \E c \in Callers :
        /\ pc[c].kind = "insert"
        /\ \E object_id \in ObjectIds(store, pc[c].docs[1]) :
            \E r \in {insert_write(schema, store, Dry("ok", pc[c].docs[1]), object_id)} :
                /\ NewId(pc[c].docs[1], object_id) # None
                /\ store' = r.store
                /\ result' = [result EXCEPT ![c].err = r.err, ![c].ret = r.ret,
                                             ![c].id = NewId(pc[c].docs[1], object_id)]
        /\ pc' = [pc EXCEPT ![c] = Idle]
        /\ UNCHANGED <<schema, force_ownership, now, queries, submissions>>

NextRace ==
    \/ RaceInsertCheck
    \/ RaceInsertWrite

SpecRace == InitRace /\ [][NextRace]_vars

\* ===================================================================
\* Properties of the single-item operations, checked under Spec.
\* ===================================================================
AuditFields == {"created_at", "updated_at", "created_by", "updated_by"}

\* The ids of the documents of st that hold value v for the unique key.
Holders(st, v) == {i \in DOMAIN st : "email" \in DOMAIN st[i] /\ st[i]["email"] = v}

\* The value the store holds for a supplied value: a secret is stored plain.
Plain(v) == IF v < 0 THEN 0 - v ELSE v

\* The owner rule is broken: no owner, no force, ownership mandated.
OwnerRuleBroken == result.owner = None /\ ~result.force /\ force_ownership

\* C1: insert(r) of a record whose unique-key value is not stored, whose id
\* is not that of a stored document and whose call does not break the owner
\* rule succeeds; and after a successful insert(r), get(id of the returned
\* record) gives a record with that id whose every non-audit field equals
\* r's, with created_at populated and, on an owner-audited schema, created_by
\* equal to the supplied owner.
C1_InsertThenGet ==
    /\ (/\ result.op = "insert"
        /\ Holders(result.before, result.doc["email"]) = {}
        /\ result.doc["id"] \notin DOMAIN result.before
        /\ ~(schema \in {"SchemaWithOwner", "StaticSchemaWithOwner"} /\ OwnerRuleBroken)) =>
            result.err = "ok"
    /\ (result.op = "insert" /\ result.err = "ok") =>
        LET id == result.ret[1]["id"]
            g == get(schema, store, id)
        IN  /\ g.err = "ok"
            /\ g.doc["id"] = id
            /\ result.doc["id"] # None => id = result.doc["id"]
            /\ \A f \in UserFields : g.doc[f] = result.doc[f]
            /\ g.doc["created_at"] # None
            /\ schema \in {"SchemaWithOwner", "StaticSchemaWithOwner"} =>
                    g.doc["created_by"] = result.owner

C1_Witness ==
    /\ result.op = "insert"
    /\ result.err = "ok"
    /\ schema = "SchemaWithOwner"
    /\ result.owner # None
    /\ result.doc["id"] = None
    /\ result.doc["password"] # None

\* C2 as claimed: with v stored, insert of a record with v fails with Conflict
\* and leaves the store unchanged; update of the record whose id is that of
\* the one document holding v succeeds; update of a record with another id
\* and value v fails with Conflict.
C2_AsClaimed ==
    /\ (result.op = "insert" /\ Holders(result.before, result.doc["email"]) # {}) =>
            (result.err = "Conflict" /\ store = result.before)
    /\ (result.op = "update" /\ result.doc["id"] # None
            /\ Holders(result.before, result.doc["email"]) = {result.doc["id"]}) =>
            result.err = "ok"
    /\ (result.op = "update" /\ result.doc["id"] # None
            /\ Holders(result.before, result.doc["email"]) # {}
            /\ result.doc["id"] \notin Holders(result.before, result.doc["email"])) =>
            result.err = "Conflict"

\* C2, amended: with v stored, insert of a record with v fails and leaves the
\* store unchanged, with the owner rule's ValueError when the schema requires
\* an owner on insert and the owner rule is broken (insert checks the owner
\* first) and with Conflict otherwise; update of the record whose id is that of
\* the one document holding v never raises Conflict, and succeeds unless the
\* schema requires an owner on update and the owner rule is broken; update of
\* a record with another id and value v fails with Conflict.
C2_Uniqueness ==
    /\ (result.op = "insert" /\ Holders(result.before, result.doc["email"]) # {}) =>
            /\ store = result.before
            /\ result.err =
                IF schema \in {"SchemaWithOwner", "StaticSchemaWithOwner"} /\ OwnerRuleBroken
                THEN "ValueError" ELSE "Conflict"
    /\ (result.op = "update" /\ result.doc["id"] # None
            /\ Holders(result.before, result.doc["email"]) = {result.doc["id"]}) =>
            result.err =
                IF schema = "SchemaWithOwner" /\ OwnerRuleBroken THEN "ValueError" ELSE "ok"
    /\ (result.op = "update" /\ result.doc["id"] # None
            /\ Holders(result.before, result.doc["email"]) # {}
            /\ result.doc["id"] \notin Holders(result.before, result.doc["email"])) =>
            (result.err = "Conflict" /\ store = result.before)

C2_Witness ==
    /\ result.op = "update"
    /\ result.err = "ok"
    /\ Holders(result.before, result.doc["email"]) = {result.doc["id"]}
    /\ Cardinality(DOMAIN result.before) = 2

\* C3: after a successful update of an existing document, every stored field
\* the payload (the record's fields) lacks has its value of before the call;
\* and when the record is the fetched one changed in one field, every other
\* non-audit field of the stored document has its value of before the call.
C3_UpdateMerges ==
    (result.op = "update" /\ result.err = "ok" /\ result.id \in DOMAIN result.before) =>
        LET old == result.before[result.id]
            new == store[result.id]
            fetched == FromDoc(schema, old, result.id)
        IN  /\ \A k \in DOMAIN old \ DOMAIN result.doc :
                    k \in DOMAIN new /\ new[k] = old[k]
            /\ \A f \in UserFields :
                    (\A g \in DOMAIN result.doc \ {f} : result.doc[g] = fetched[g]) =>
                        \A k \in DOMAIN old \ (AuditFields \cup {f}) :
                            k \in DOMAIN new /\ new[k] = old[k]

C3_Witness ==
    /\ result.op = "update"
    /\ result.err = "ok"
    /\ result.id \in DOMAIN result.before
    /\ "legacy" \in DOMAIN result.before[result.id]
    /\ result.doc["email"] # result.before[result.id]["email"]
    /\ result.doc["password"] = Validate("password", result.before[result.id]["password"])
    /\ result.doc["created_at"] # None

\* C4 as claimed: after a successful update_attributes (or update_attribute)
\* every key of the map holds the supplied value, every other stored field
\* that is not updated_at or updated_by has its value of before the call, and
\* no other document is changed.
C4_AsClaimed ==
    (result.op \in {"update_attributes", "update_attribute"} /\ result.err = "ok") =>
        /\ result.id \in DOMAIN result.before
        /\ DOMAIN store = DOMAIN result.before
        /\ \A k \in DOMAIN result.doc :
                k \in DOMAIN store[result.id] /\ store[result.id][k] = Plain(result.doc[k])
        /\ \A k \in DOMAIN result.before[result.id] \
                    (DOMAIN result.doc \cup {"updated_at", "updated_by"}) :
                k \in DOMAIN store[result.id]
                    /\ store[result.id][k] = result.before[result.id][k]
        /\ \A j \in DOMAIN store \ {result.id} : store[j] = result.before[j]

\* C4, amended: as claimed, but only the keys of the map other than
\* updated_at and updated_by hold the supplied value: a supplied updated_at or
\* updated_by is overwritten by the audit stamp of the call.
C4_PartialUpdate ==
    (result.op \in {"update_attributes", "update_attribute"} /\ result.err = "ok") =>
        /\ result.id \in DOMAIN result.before
        /\ DOMAIN store = DOMAIN result.before
        /\ \A k \in DOMAIN result.doc \ {"updated_at", "updated_by"} :
                k \in DOMAIN store[result.id] /\ store[result.id][k] = Plain(result.doc[k])
        /\ \A k \in DOMAIN result.before[result.id] \
                    (DOMAIN result.doc \cup {"updated_at", "updated_by"}) :
                k \in DOMAIN store[result.id]
                    /\ store[result.id][k] = result.before[result.id][k]
        /\ \A j \in DOMAIN store \ {result.id} : store[j] = result.before[j]

C4_Witness ==
    /\ result.op = "update_attributes"
    /\ result.err = "ok"
    /\ DOMAIN result.doc = {"email", "password"}
    /\ result.doc["password"] # None
    /\ "legacy" \in DOMAIN result.before[result.id]
    /\ result.before[result.id]["email"] # result.doc["email"]

\* The step in which a delete with an owner returns.
DeleteReturns ==
    /\ result' # result
    /\ result'.op = "delete"
    /\ result'.err = "ok"
    /\ result'.owner # None

\* The document the delete in progress is about is marked: it exists with
\* deleted = true, updated_by = the owner and, on a schema with updated_at,
\* the time of the call as updated_at.
Marked ==
    /\ pc.kind = "delete"
    /\ pc.id = result.id
    /\ pc.id \in DOMAIN store
    /\ {"deleted", "updated_by"} \subseteq DOMAIN store[pc.id]
    /\ store[pc.id]["deleted"] = True
    /\ store[pc.id]["updated_by"] = result.owner
    /\ "updated_at" \in SchemaProps(schema) =>
            ("updated_at" \in DOMAIN store[pc.id] /\ store[pc.id]["updated_at"] = now - 1)

\* C7 as claimed: on a schema that carries an ownership model (either
\* variant with created_by), a delete with an owner returns from a state in
\* which the document is marked, and the document is absent when it returns.
C7_AsClaimed ==
    [][(DeleteReturns /\ schema \in {"SchemaWithOwner", "StaticSchemaWithOwner"}) =>
            (Marked /\ result'.id \notin DOMAIN store')]_vars

\* C7 on the schemas derived from SchemaWithOwner alone, where it holds: a
\* delete with an owner returns from a state in which the document is marked,
\* and the document is absent when it returns.  (On StaticSchemaWithOwner
\* delete writes no mark.)
C7_SoftMarkBeforeDelete ==
    [][(DeleteReturns /\ schema = "SchemaWithOwner") =>
            (Marked /\ result'.id \notin DOMAIN store')]_vars

C7_Witness ==
    /\ Marked
    /\ schema = "SchemaWithOwner"
    /\ pc.id \in DOMAIN result.before
    /\ store[pc.id]["updated_at"] > 1

\* The schema requires an owner for the operation of the call.
OwnerRequired ==
    \/ result.op = "insert" /\ schema \in {"SchemaWithOwner", "StaticSchemaWithOwner"}
    \/ result.op \in {"update", "update_attributes", "update_attribute", "delete"}
            /\ schema = "SchemaWithOwner"

\* C8 as claimed: where the schema requires an owner for the operation, a
\* call with a null owner is accepted only with force set and ownership not
\* mandated by the collection; every other call with a null owner fails with
\* ValueError and writes nothing.
C8_AsClaimed ==
    (OwnerRequired /\ result.owner = None /\ ~(result.force /\ ~force_ownership)) =>
        (result.err = "ValueError" /\ store = result.before)

\* C8, amended: where the schema requires an owner for the operation, a call
\* with a null owner is rejected by the owner rule exactly when force is not
\* set and the collection mandates ownership (force_ownership).  Such a call
\* writes nothing and fails: with ValueError, unless update's or
\* update_attributes' earlier checks raise Conflict or KeyError first.  With
\* force set, or ownership not mandated, a null owner is accepted: insert and
\* delete never fail with ValueError, nor update and update_attributes given
\* an id.
C8_OwnerRule ==
    (OwnerRequired /\ result.owner = None) =>
        IF ~result.force /\ force_ownership
        THEN /\ store = result.before
             /\ result.err \in
                    IF result.op \in {"insert", "delete"}
                    THEN {"ValueError"} ELSE {"ValueError", "Conflict", "KeyError"}
        ELSE /\ result.op \in {"insert", "delete"} => result.err # "ValueError"
             /\ result.op = "delete" => result.err = "ok"
             /\ (result.op \in {"update", "update_attributes", "update_attribute"}
                    /\ result.id # None) => result.err # "ValueError"

C8_Witness ==
    /\ OwnerRequired
    /\ result.op = "insert"
    /\ result.owner = None
    /\ ~result.force
    /\ ~force_ownership
    /\ result.err = "ok"
    /\ store[result.id]["created_by"] = None

\* ===================================================================
\* Properties of the queries, checked under SpecQuery.
\* ===================================================================
IsQuery == result.op \in {"query_by_attribute", "query_by_attributes"}

\* The three lists of the call have one length.
SameLengths ==
    /\ Len(result.doc.attributes) = Len(result.doc.values)
    /\ Len(result.doc.values) = Len(result.doc.operators)

\* The positions of the `in` conditions of the call.
InIdx == {j \in 1..Len(result.doc.operators) : Lower(result.doc.operators[j]) = "in"}

\* The call is a query with exactly one `in` condition.
OneIn == IsQuery /\ SameLengths /\ Cardinality(InIdx) = 1

TheIn == CHOOSE j \in InIdx : TRUE

\* Sub-query k carries the `in` filter on the k-th ten values of the list.
CarriesChunk(k) ==
    \E f \in 1..Len(queries[k].filters) :
        /\ queries[k].filters[f].op = "in"
        /\ queries[k].filters[f].attr = result.doc.attributes[TheIn]
        /\ queries[k].filters[f].value =
                SubSeq(result.doc.values[TheIn], 10 * (k - 1) + 1,
                       Min2(10 * k, Len(result.doc.values[TheIn])))

\* Sub-query k carries condition j of the call, when that is no `in` condition.
CarriesCondition(k, j) ==
    \E f \in 1..Len(queries[k].filters) :
        /\ queries[k].filters[f].attr = result.doc.attributes[j]
        /\ queries[k].filters[f].op = result.doc.operators[j]
        /\ queries[k].filters[f].value = result.doc.values[j]

\* C5: a query with exactly one `in` condition on a list of L values and no
\* sort keys issues, when L <= 100, exactly ceil(L/10) sub-queries, the k-th
\* on values 10(k-1)+1 .. min(10k, L) of the list, and returns their results
\* concatenated in that order; when L > 100 it fails with ValueError or
\* NotImplementedError and issues no query.
C5_InChunking ==
    (OneIn /\ result.doc.order_by = <<>>) =>
        IF Len(result.doc.values[TheIn]) <= 100
        THEN /\ result.err = "ok"
             /\ Len(queries) = (Len(result.doc.values[TheIn]) + 9) \div 10
             /\ \A k \in 1..Len(queries) :
                    /\ CarriesChunk(k)
                    /\ queries[k].docs =
                            ToRecords(schema, store,
                                      Stream(store, queries[k].filters, <<>>, queries[k].limit))
             /\ result.ret = ConcatDocs(queries, Len(queries))
        ELSE /\ result.err \in {"ValueError", "NotImplementedError"}
             /\ queries = <<>>

\* A list of 25 values gives three sub-queries, and the result holds the
\* document of the second chunk after the document of the first, against the
\* order of their ids.
C5_Witness ==
    /\ OneIn
    /\ result.doc.order_by = <<>>
    /\ Len(result.doc.values[TheIn]) = 25
    /\ Len(queries) = 3
    /\ Len(queries[3].filters[1].value) = 5
    /\ Len(result.ret) = 2
    /\ result.ret[1]["id"] = 2
    /\ result.ret[2]["id"] = 1

\* C9 as claimed: of a query with exactly one `in` condition (on at most 100
\* values, without sort keys), if another condition has an operator outside
\* {>=, <=, ==, !=, >, <, in} the query fails with ValueError and issues no
\* query; otherwise it succeeds and every sub-query carries the `in` filter
\* and every other condition.
C9_AsClaimed ==
    (OneIn /\ result.doc.order_by = <<>> /\ Len(result.doc.values[TheIn]) <= 100) =>
        IF \E j \in 1..Len(result.doc.operators) :
                Lower(result.doc.operators[j]) \notin {">=", "<=", "==", "!=", ">", "<", "in"}
        THEN /\ result.err = "ValueError"
             /\ queries = <<>>
        ELSE /\ result.err = "ok"
             /\ \A k \in 1..Len(queries) :
                    /\ CarriesChunk(k)
                    /\ \A j \in (1..Len(result.doc.operators)) \ InIdx : CarriesCondition(k, j)

\* C10 as claimed: query_by_attributes fails with ValueError and issues no
\* query when its three lists do not have one length; when it queries, every
\* (attribute, operator, value) triple supplied is a filter of every query
\* issued.
C10_AsClaimed ==
    result.op = "query_by_attributes" =>
        /\ ~SameLengths => (result.err = "ValueError" /\ queries = <<>>)
        /\ (SameLengths /\ InIdx = {}) =>
                \A k \in 1..Len(queries) :
                    \A j \in 1..Len(result.doc.operators) : CarriesCondition(k, j)
        /\ (SameLengths /\ Cardinality(InIdx) = 1) =>
                \A k \in 1..Len(queries) :
                    /\ CarriesChunk(k)
                    /\ \A j \in (1..Len(result.doc.operators)) \ InIdx : CarriesCondition(k, j)

\* ===================================================================
\* Properties of the bulk calls, checked under SpecBulk.
\* ===================================================================
\* The writes of submissions 1..k, one after the other.
RECURSIVE Submitted(_)
Submitted(k) == IF k = 0 THEN <<>> ELSE Submitted(k - 1) \o submissions[k].writes

\* C6: a bulk_insert of N >= 1 valid items with batch size B >= 1 of which no
\* commit fails submits exactly ceil(N/B) batches: each but the last of B
\* items, the last of N - B*(ceil(N/B) - 1), the items in input order, each
\* in exactly one batch; and no batch submitted is ever empty.
C6_BulkInsertBatches ==
    /\ \A k \in 1..Len(submissions) : Len(submissions[k].writes) >= 1
    /\ (result.op = "bulk_insert" /\ result.err = "ok") =>
        /\ Len(submissions) = (Len(result.doc.docs) + result.doc.batch_size - 1)
                                    \div result.doc.batch_size
        /\ \A k \in 1..(Len(submissions) - 1) :
                Len(submissions[k].writes) = result.doc.batch_size
        /\ Len(submissions[Len(submissions)].writes) =
                Len(result.doc.docs) - result.doc.batch_size * (Len(submissions) - 1)
        /\ Len(Submitted(Len(submissions))) = Len(result.doc.docs)
        /\ \A j \in 1..Len(result.doc.docs) :
                /\ Submitted(Len(submissions))[j].kind = "create"
                /\ Submitted(Len(submissions))[j].data["email"] = result.doc.docs[j]["email"]
                /\ result.doc.docs[j]["id"] # None =>
                        Submitted(Len(submissions))[j].id = result.doc.docs[j]["id"]
                /\ Submitted(Len(submissions))[j].id \in DOMAIN store
                /\ \A i \in 1..Len(result.doc.docs) :
                        i # j => Submitted(Len(submissions))[i].id
                                    # Submitted(Len(submissions))[j].id

\* Three items in batches of two: a full batch and a batch of one.
C6_Witness ==
    /\ result.op = "bulk_insert"
    /\ result.err = "ok"
    /\ Len(result.doc.docs) = 3
    /\ result.doc.batch_size = 2
    /\ Len(submissions) = 2
    /\ Len(submissions[1].writes) = 2
    /\ Len(submissions[2].writes) = 1
    /\ Cardinality(DOMAIN store) >= 3

\* ===================================================================
\* Properties of concurrent inserts, checked under SpecRace.
\* ===================================================================
\* Caller c's insert is over, and its uniqueness check ran on a store without
\* the record's unique value; its call does not break the owner rule.
CheckedBeforeWrites(c) ==
    /\ result[c].op = "insert"
    /\ result[c].err # "running"
    /\ Holders(result[c].before, result[c].doc["email"]) = {}
    /\ ~(/\ schema \in {"SchemaWithOwner", "StaticSchemaWithOwner"}
         /\ result[c].owner = None /\ ~result[c].force /\ force_ownership)

\* C11: of two callers running insert of records with different ids and the
\* same unique value, when both uniqueness checks ran before either write
\* (neither saw the value stored), both inserts succeed and the collection
\* holds two documents with that value; and there is such an interleaving
\* (C11_Witness is reached).
C11_RaceAdmitsDuplicates ==
    \A c \in Callers, d \in Callers :
        (/\ c # d
         /\ CheckedBeforeWrites(c)
         /\ CheckedBeforeWrites(d)
         /\ result[c].doc["email"] = result[d].doc["email"]
         /\ result[c].id # result[d].id
         /\ result[c].id \notin DOMAIN result[c].before
         /\ result[d].id \notin DOMAIN result[d].before) =>
            /\ result[c].err = "ok"
            /\ result[d].err = "ok"
            /\ {result[c].id, result[d].id} \subseteq Holders(store, result[c].doc["email"])

C11_Witness ==
    /\ result[1].op = "insert"
    /\ result[2].op = "insert"
    /\ result[1].err = "ok"
    /\ result[2].err = "ok"
    /\ result[1].before = EmptyStore
    /\ result[2].before = EmptyStore
    /\ result[1].doc["id"] = 1
    /\ result[2].doc["id"] = 2
    /\ Cardinality(Holders(store, 1)) = 2

\* ===================================================================
\* Properties of failing and oversized batches, checked under SpecBulk.
\* ===================================================================
IsBulk == result.op \in {"bulk_insert", "bulk_update", "bulk_delete"}

\* C12: in bulk_insert, bulk_update and bulk_delete, when the commit of the
\* k-th batch fails, the failure is the call's error, the call is over and
\* submits no batch after the k-th, every write of batches 1..k-1 is applied
\* to the store and no write of batch k is.
C12_PartialCommit ==
    IsBulk =>
        /\ \A k \in 1..(Len(submissions) - 1) : submissions[k].err = "ok"
        /\ (Len(submissions) >= 1 /\ submissions[Len(submissions)].err # "ok") =>
            /\ pc = Idle
            /\ result.err = submissions[Len(submissions)].err
            /\ store = ApplyWrites(result.before, Submitted(Len(submissions) - 1), 1).store

\* The second of three batches failed: the first stays applied, the third
\* item was never submitted.
C12_Witness ==
    /\ IsBulk
    /\ Len(result.doc.docs) = 3
    /\ result.doc.batch_size = 1
    /\ Len(submissions) = 2
    /\ submissions[2].err # "ok"
    /\ store # result.before
    /\ result.err = submissions[2].err

\* C13 as claimed: every batch a bulk call submits holds at most batch_size
\* writes.
C13_AsClaimed ==
    IsBulk => \A k \in 1..Len(submissions) :
                    Len(submissions[k].writes) <= result.doc.batch_size

\* ===================================================================
\* The uniqueness invariant of the single-item operations, checked under Spec.
\* ===================================================================
\* C14: after any sequence of single-item calls (insert, update,
\* update_attributes, update_attribute, delete), each over before the next
\* starts, no two stored documents with different ids hold the same value for
\* the declared-unique key.
C14_SequentialUniqueness ==
    \A i \in DOMAIN store, j \in DOMAIN store :
        (i # j /\ "email" \in DOMAIN store[i] /\ "email" \in DOMAIN store[j]) =>
            store[i]["email"] # store[j]["email"]

\* Two documents are stored, and a call that would have given the second the
\* value of the first was refused.
C14_Witness ==
    /\ Cardinality(DOMAIN store) = 2
    /\ result.op \in {"update_attributes", "update_attribute"}
    /\ result.err = "Conflict"
    /\ "email" \in DOMAIN result.doc
    /\ Holders(store, result.doc["email"]) # {}

\* ===================================================================
\* Properties of the bulk calls' checks, checked under SpecBulk.
\* ===================================================================
\* Item j of the bulk call fails a check of its dry run on the store the call
\* found: the owner rule, or the uniqueness of its value (or, in bulk_update,
\* it has no id).
ItemFails(j) ==
    IF result.op = "bulk_insert"
    THEN \/ schema \in {"SchemaWithOwner", "StaticSchemaWithOwner"} /\ OwnerRuleBroken
         \/ Holders(result.before, result.doc.docs[j]["email"]) # {}
    ELSE \/ schema = "SchemaWithOwner" /\ OwnerRuleBroken
         \/ result.doc.docs[j]["id"] = None
         \/ Holders(result.before, result.doc.docs[j]["email"])
                \ {result.doc.docs[j]["id"]} # {}

\* C15: a bulk_insert or bulk_update with batch_size <= 0, with an empty
\* list, or with an item at any position that fails a check, raises
\* (ValueError or Conflict), leaves the store as it found it and submits no
\* batch.
C15_BulkPrevalidation ==
    (/\ result.op \in {"bulk_insert", "bulk_update"}
     /\ \/ result.doc.batch_size <= 0
        \/ Len(result.doc.docs) = 0
        \/ \E j \in 1..Len(result.doc.docs) : ItemFails(j)) =>
        /\ result.err \in {"ValueError", "Conflict"}
        /\ store = result.before
        /\ submissions = <<>>
        /\ pc = Idle

\* Only the last of three items fails, on a value the store holds.
C15_Witness ==
    /\ result.op \in {"bulk_insert", "bulk_update"}
    /\ result.doc.batch_size = 1
    /\ Len(result.doc.docs) = 3
    /\ ~ItemFails(1)
    /\ ~ItemFails(2)
    /\ ItemFails(3)
    /\ result.err = "Conflict"
    /\ store = result.before
    /\ store # EmptyStore
====
